---- MODULE Spec2Model ----
(***************************************************************************)
(* Model of src/utils/passwordGenerator.ts: the policy table, the          *)
(* password generator with its Fisher-Yates shuffle, the validator and     *)
(* the two accessors.                                                      *)
(*                                                                         *)
(* A JavaScript string is a sequence of one-character strings.  An object  *)
(* literal is a sequence of [key, value] entries in insertion order, which *)
(* is the order Object.values() enumerates.  No function of the library    *)
(* assigns anything outside its locals, so the state of the model is the   *)
(* call in progress (or the last one finished): its arguments, the locals  *)
(* of generatePassword and what it returned or threw; then the contents of *)
(* the object CHARACTER_SETS, which only a caller holding a mapping the    *)
(* accessor returned can change, and the length and strength of the        *)
(* PasswordGenerator component.                                            *)
(*                                                                         *)
(* Spec          the four exported functions, called with any arguments    *)
(* SpecAliased   the accessors and a caller that writes to what it got     *)
(* SpecShuffle   shuffleString on its own, on short sequences              *)
(* SpecComponent the component: strength buttons, slider, number field,    *)
(*               Generate                                                  *)
(***************************************************************************)
EXTENDS Integers, Sequences, FiniteSets

(* ------------------------------ bounds --------------------------------- *)

\* Math.random() is modelled as a fraction num / RandomDenom in [0, 1).
RandomDenom == 100

\* Number of evenly spaced values Math.random() ranges over, the smallest
\* (0) and the largest ((RandomDenom - 1) / RandomDenom) included.
RandomLevels == 3

\* At most this many draws of one generatePassword call are non-zero.
MaxVariedDraws == 2

\* Requested lengths range from -MaxBelowZero to the minimum of the
\* strength plus MaxExtraLength.
MaxBelowZero == 1

MaxExtraLength == 2

\* Longest string handed to validatePasswordStrength by a caller.
MaxInputLen == 13

\* Longest sequence shuffleString is applied to on its own.
MaxShuffleLen == 4

\* Largest length the user of the component picks on the slider or types.
MaxTyped == 12

\* At most this many entries of CHARACTER_SETS differ from the literal.
MaxMutations == 2

(* --------------------------- policy table ------------------------------ *)

Strengths == {"low", "medium", "high"}

Lowercase ==
  << "a","b","c","d","e","f","g","h","i","j","k","l","m",
     "n","o","p","q","r","s","t","u","v","w","x","y","z" >>

Uppercase ==
  << "A","B","C","D","E","F","G","H","I","J","K","L","M",
     "N","O","P","Q","R","S","T","U","V","W","X","Y","Z" >>

Numbers == << "0","1","2","3","4","5","6","7","8","9" >>

BasicSymbols == << "!","@","#","$","%","^","&","*" >>

ExtendedSymbols ==
  << "!","@","#","$","%","^","&","*","(",")","_","+","-",
     "=","[","]","{","}","|",";",":",",",".","<",">","?" >>

Entry(k, v) == [key |-> k, value |-> v]

CHARACTER_SETS ==
  [ low    |-> << Entry("lowercase", Lowercase),
                  Entry("uppercase", Uppercase),
                  Entry("numbers", Numbers) >>,
    medium |-> << Entry("lowercase", Lowercase),
                  Entry("uppercase", Uppercase),
                  Entry("numbers", Numbers),
                  Entry("symbols", BasicSymbols) >>,
    high   |-> << Entry("lowercase", Lowercase),
                  Entry("uppercase", Uppercase),
                  Entry("numbers", Numbers),
                  Entry("symbols", ExtendedSymbols) >> ]

\* MIN_LENGTHS with a medium threshold above the high one.
MIN_LENGTHS_MediumAboveHigh == [ low |-> 6, medium |-> 13, high |-> 12 ]

\* MIN_LENGTHS with the high threshold mistyped.
MIN_LENGTHS_WrongHigh == [ low |-> 6, medium |-> 8, high |-> 10 ]

MIN_LENGTHS == [ low |-> 6, medium |-> 8, high |-> 12 ]

(* ------------------------------- state --------------------------------- *)

VARIABLES
  pc,               \* "idle", or the loop generatePassword is in
  op,               \* the function called last
  strength,         \* its strength argument
  length,           \* config.length of generatePassword
  input,            \* the password argument of validatePasswordStrength
  password,         \* local of generatePassword
  setIndex,         \* position of forEach in requiredSets, from 1
  remainingLength,  \* local of generatePassword
  i,                \* loop counter of the fill loop, then of shuffleString
  arr,              \* local of shuffleString
  draws,            \* Math.random() calls made by the call so far
  varied,           \* how many of them were non-zero
  outcome,          \* "none", "pending", "returned" or "threw"
  retPassword,      \* what generatePassword returned
  retReport,        \* what validatePasswordStrength returned
  retMin,           \* what getMinLengthForStrength returned
  retSets,          \* what getCharacterSetsForStrength returned
  thrown,           \* the message of the Error generatePassword threw
  characterSets,    \* the contents of the object CHARACTER_SETS now
  uiLength,         \* the length state of the PasswordGenerator component
  uiStrength        \* its strength state

vars ==
  << pc, op, strength, length, input, password, setIndex, remainingLength,
     i, arr, draws, varied, outcome, retPassword, retReport, retMin, retSets,
     thrown, characterSets, uiLength, uiStrength >>

\* What no function of the library assigns: the table and the state of
\* the component.
env == << characterSets, uiLength, uiStrength >>

(* ------------------------- JavaScript helpers -------------------------- *)

\* Object.values(obj): the values in insertion order.
ObjectValues(obj) == [ n \in 1..Len(obj) |-> obj[n].value ]

\* strings.join(''): concatenation, left to right.
RECURSIVE Join(_)
Join(strs) ==
  IF strs = << >> THEN << >> ELSE Head(strs) \o Join(Tail(strs))

\* The values Math.random() takes, as numerators over RandomDenom.
RandomValues ==
  { (k * (RandomDenom - 1)) \div (RandomLevels - 1) : k \in 0..(RandomLevels - 1) }

\* Math.floor(Math.random() * (n - 1)): the bound of the draw one too low.
RandomIndex_ExcludesLast(r, n) == (r * (n - 1)) \div RandomDenom

\* Math.floor(Math.random() * n), a 0-based index.
RandomIndex(r, n) == (r * n) \div RandomDenom

\* str[index] with a 0-based index.
CharAt(str, index) == str[index + 1]

\* The test anchored at the start of the string, as /^[...]/ would be.
RegexTest_Anchored(class, str) == str # << >> /\ Head(str) \in class

\* regex.test(str) for a regex that is one character class: scan from the
\* left for the first character of the class.
RECURSIVE RegexTest(_, _)
RegexTest(class, str) ==
  IF str = << >> THEN FALSE
  ELSE IF Head(str) \in class THEN TRUE
  ELSE RegexTest(class, Tail(str))

\* /[a-z]/, /[A-Z]/, /[0-9]/ and /[!@#$%^&*()_+\-=\[\]{}|;:,.<>?]/
LowerClass ==
  { "a","b","c","d","e","f","g","h","i","j","k","l","m",
    "n","o","p","q","r","s","t","u","v","w","x","y","z" }

UpperClass ==
  { "A","B","C","D","E","F","G","H","I","J","K","L","M",
    "N","O","P","Q","R","S","T","U","V","W","X","Y","Z" }

DigitClass == { "0","1","2","3","4","5","6","7","8","9" }

\* The symbol test written with the basic symbols only.
SymbolClass_BasicOnly == { "!","@","#","$","%","^","&","*" }

SymbolClass ==
  { "!","@","#","$","%","^","&","*","(",")","_","+","-",
    "=","[","]","{","}","|",";",":",",",".","<",">","?" }

(* ------------------------- generatePassword ---------------------------- *)

\* The length check one too low.
LengthBelowMinimum_OffByOne(len, s) == len < MIN_LENGTHS[s] - 1

\* The length check reduced to a check for a positive length.
LengthBelowMinimum_PositiveOnly(len, s) == len < 1

\* `${n}`: the decimal digits of an integer, as a string.
RECURSIVE Decimal(_)
Decimal(n) ==
  IF n < 0 THEN "-" \o Decimal(0 - n)
  ELSE IF n < 10 THEN Numbers[n + 1]
  ELSE Decimal(n \div 10) \o Numbers[(n % 10) + 1]

\* The message with the minimum of low written into it.
ErrorMessage_FixedMinimum(s) ==
  << "Password length must be at least ", Decimal(MIN_LENGTHS["low"]),
     " characters for ", s, " strength" >>

\* The message of the Error: the pieces of the template literal, the
\* interpolated values converted to strings.
ErrorMessage(s) ==
  << "Password length must be at least ", Decimal(MIN_LENGTHS[s]),
     " characters for ", s, " strength" >>

\* length < MIN_LENGTHS[strength]
LengthBelowMinimum(len, s) == len < MIN_LENGTHS[s]

\* requiredSets fixed to the three classes every strength has.
RequiredSets_FirstThree(s) == SubSeq(ObjectValues(characterSets[s]), 1, 3)

\* const requiredSets = Object.values(charSets)
RequiredSets(s) == ObjectValues(characterSets[s])

\* allChars built from the largest table whatever the strength.
AllChars_AlwaysHigh(s) == Join(ObjectValues(characterSets["high"]))

\* const allChars = Object.values(charSets).join('')
AllChars(s) == Join(ObjectValues(characterSets[s]))

\* remainingLength without the characters already drawn taken off.
RemainingLength_NoSubtract(len, pw) == len

\* const remainingLength = length - password.length
RemainingLength(len, pw) == len - Len(pw)

\* The swap with its second assignment lost.
Swap_OneWay(a, m, n) == [ a EXCEPT ![m + 1] = a[n + 1] ]

\* [arr[i], arr[j]] = [arr[j], arr[i]] with 0-based i, j
Swap(a, m, n) == [ a EXCEPT ![m + 1] = a[n + 1], ![n + 1] = a[m + 1] ]

(* ----------------------- validatePasswordStrength ---------------------- *)

\* The length comparison inverted.
MeetsLength_Inverted(pw, minLength) == Len(pw) <= minLength

MeetsLength(pw, minLength) == Len(pw) >= minLength

\* The validator with the length left out of isValid.
validatePasswordStrength_NoLength(pw, s) ==
  LET hasLowercase == RegexTest(LowerClass, pw)
      hasUppercase == RegexTest(UpperClass, pw)
      hasNumbers   == RegexTest(DigitClass, pw)
      hasSymbols   == s # "low" /\ RegexTest(SymbolClass, pw)
      meetsLength  == MeetsLength(pw, MIN_LENGTHS[s])
  IN  [ isValid |-> hasLowercase /\ hasUppercase /\ hasNumbers
                    /\ (s = "low" \/ hasSymbols),
        details |-> [ hasLowercase |-> hasLowercase,
                      hasUppercase |-> hasUppercase,
                      hasNumbers   |-> hasNumbers,
                      hasSymbols   |-> hasSymbols,
                      meetsLength  |-> meetsLength,
                      strength     |-> s ] ]

\* The validator with the strength of the report not taken from its
\* argument.
validatePasswordStrength_FixedStrength(pw, s) ==
  LET hasLowercase == RegexTest(LowerClass, pw)
      hasUppercase == RegexTest(UpperClass, pw)
      hasNumbers   == RegexTest(DigitClass, pw)
      hasSymbols   == s # "low" /\ RegexTest(SymbolClass, pw)
      meetsLength  == MeetsLength(pw, MIN_LENGTHS[s])
  IN  [ isValid |-> hasLowercase /\ hasUppercase /\ hasNumbers
                    /\ (s = "low" \/ hasSymbols) /\ meetsLength,
        details |-> [ hasLowercase |-> hasLowercase,
                      hasUppercase |-> hasUppercase,
                      hasNumbers   |-> hasNumbers,
                      hasSymbols   |-> hasSymbols,
                      meetsLength  |-> meetsLength,
                      strength     |-> "medium" ] ]

validatePasswordStrength(pw, s) ==
  LET minLength    == MIN_LENGTHS[s]
      hasLowercase == RegexTest(LowerClass, pw)
      hasUppercase == RegexTest(UpperClass, pw)
      hasNumbers   == RegexTest(DigitClass, pw)
      hasSymbols   == s # "low" /\ RegexTest(SymbolClass, pw)
      meetsLength  == MeetsLength(pw, minLength)
      isValid      == hasLowercase /\ hasUppercase /\ hasNumbers
                      /\ (s = "low" \/ hasSymbols) /\ meetsLength
  IN  [ isValid |-> isValid,
        details |-> [ hasLowercase |-> hasLowercase,
                      hasUppercase |-> hasUppercase,
                      hasNumbers   |-> hasNumbers,
                      hasSymbols   |-> hasSymbols,
                      meetsLength  |-> meetsLength,
                      strength     |-> s ] ]

(* ------------------------------ accessors ------------------------------ *)

getMinLengthForStrength(s) == MIN_LENGTHS[s]

\* The accessor giving low a symbols entry that is present but empty.
getCharacterSetsForStrength_EmptySymbols(s) ==
  IF s = "low" THEN Append(characterSets[s], Entry("symbols", << >>))
  ELSE characterSets[s]

getCharacterSetsForStrength(s) == characterSets[s]

(* ------------------------- callers' inputs ----------------------------- *)

\* Requested lengths tried with strength s.
Lengths(s) == (0 - MaxBelowZero)..(MIN_LENGTHS[s] + MaxExtraLength)

\* One character of each kind the validator tells apart: a lowercase
\* letter, an uppercase letter, a digit, a basic symbol, a symbol of the
\* extended set only, and a character of no class.
SampleChars == << "a", "Z", "5", "!", "[", " " >>

\* The sample characters whose positions are in T, in order.
Pick(T) ==
  LET F[n \in 0..Len(SampleChars)] ==
        IF n = 0 THEN << >>
        ELSE IF n \in T THEN Append(F[n - 1], SampleChars[n])
        ELSE F[n - 1]
  IN  F[Len(SampleChars)]

\* The first n characters of base repeated for ever.
Repeat(base, n) ==
  IF base = << >> THEN << >>
  ELSE [ m \in 1..n |-> base[((m - 1) % Len(base)) + 1] ]

\* The literal passwords of the test suite.
TestStrings ==
  { << "A","b","c","1","2","3" >>,
    << "A","B","C","1","2","3" >>,
    << "a","b","c","1","2","3" >>,
    << "A","b","c","d","e","f" >>,
    << "A","b","1" >>,
    << "A","b","c","1","2","3","!","@" >>,
    << "A","b","c","1","2","3","4","5" >>,
    << "A","b","1","!" >>,
    << "A","b","c","1","2","3","!","@","#","$","%","^" >>,
    << "A","b","c","1","2","3","4","5","!","@","#","$" >>,
    << "A","b","1","!","@","#","$" >>,
    << " "," "," " >> }

InputStrings ==
  { Repeat(Pick(T), n) : T \in SUBSET (1..Len(SampleChars)), n \in 0..MaxInputLen }
    \cup TestStrings

(* ------------------------------- Init ---------------------------------- *)

\* useState<number>(12) and useState<PasswordStrength>('medium')
InitialLength == 12

InitialStrength == "medium"

NoReport ==
  [ isValid |-> FALSE,
    details |-> [ hasLowercase |-> FALSE, hasUppercase |-> FALSE,
                  hasNumbers |-> FALSE, hasSymbols |-> FALSE,
                  meetsLength |-> FALSE, strength |-> "low" ] ]

Init ==
  /\ pc = "idle"
  /\ op = "none"
  /\ strength = "low"
  /\ length = 0
  /\ input = << >>
  /\ password = << >>
  /\ setIndex = 1
  /\ remainingLength = 0
  /\ i = 0
  /\ arr = << >>
  /\ draws = 0
  /\ varied = 0
  /\ outcome = "none"
  /\ retPassword = << >>
  /\ retReport = NoReport
  /\ retMin = 0
  /\ retSets = << >>
  /\ thrown = << >>
  /\ characterSets = CHARACTER_SETS
  /\ uiLength = InitialLength
  /\ uiStrength = InitialStrength

\* A call starts from nothing: no local and no result of an earlier call
\* is visible to it.
Fresh(o, s) ==
  /\ op' = o
  /\ strength' = s
  /\ password' = << >>
  /\ setIndex' = 1
  /\ remainingLength' = 0
  /\ i' = 0
  /\ arr' = << >>
  /\ draws' = 0
  /\ varied' = 0

\* One call of Math.random() returning r.
Draw(r) ==
  /\ r \in RandomValues
  /\ r = 0 \/ varied < MaxVariedDraws
  /\ draws' = draws + 1
  /\ varied' = IF r = 0 THEN varied ELSE varied + 1

(* --------------------- generatePassword, step by step ------------------ *)

\* Entry and the length check.
GenerateCall(len, s) ==
  /\ pc = "idle"
  /\ op = "none"
  /\ Fresh("generatePassword", s)
  /\ length' = len
  /\ input' = << >>
  /\ retPassword' = << >>
  /\ retReport' = NoReport
  /\ retMin' = 0
  /\ retSets' = << >>
  /\ IF LengthBelowMinimum(len, s)
     THEN /\ outcome' = "threw"
          /\ thrown' = ErrorMessage(s)
          /\ pc' = "idle"
     ELSE /\ outcome' = "pending"
          /\ thrown' = << >>
          /\ pc' = "required"
  /\ UNCHANGED env

\* One iteration of requiredSets.forEach.
DrawRequired ==
  /\ pc = "required"
  /\ setIndex <= Len(RequiredSets(strength))
  /\ \E r \in RandomValues :
       LET charSet     == RequiredSets(strength)[setIndex]
           randomIndex == RandomIndex(r, Len(charSet))
       IN  /\ Draw(r)
           /\ password' = Append(password, CharAt(charSet, randomIndex))
  /\ setIndex' = setIndex + 1
  /\ UNCHANGED << pc, op, strength, length, input, remainingLength, i, arr,
                  outcome, retPassword, retReport, retMin, retSets, thrown >>
  /\ UNCHANGED env

\* forEach is over; remainingLength is computed and the fill loop entered.
BeginFill ==
  /\ pc = "required"
  /\ setIndex > Len(RequiredSets(strength))
  /\ remainingLength' = RemainingLength(length, password)
  /\ i' = 0
  /\ pc' = "fill"
  /\ UNCHANGED << op, strength, length, input, password, setIndex, arr, draws,
                  varied, outcome, retPassword, retReport, retMin, retSets, thrown >>
  /\ UNCHANGED env

\* One iteration of the fill loop.
DrawFill ==
  /\ pc = "fill"
  /\ i < remainingLength
  /\ \E r \in RandomValues :
       LET allChars    == AllChars(strength)
           randomIndex == RandomIndex(r, Len(allChars))
       IN  /\ Draw(r)
           /\ password' = Append(password, CharAt(allChars, randomIndex))
  /\ i' = i + 1
  /\ UNCHANGED << pc, op, strength, length, input, setIndex, remainingLength,
                  arr, outcome, retPassword, retReport, retMin, retSets, thrown >>
  /\ UNCHANGED env

\* The fill loop is over; shuffleString(password) is entered.
BeginShuffle ==
  /\ pc = "fill"
  /\ ~ (i < remainingLength)
  /\ arr' = password
  /\ i' = Len(password) - 1
  /\ pc' = "shuffle"
  /\ UNCHANGED << op, strength, length, input, password, setIndex,
                  remainingLength, draws, varied, outcome, retPassword,
                  retReport, retMin, retSets, thrown >>
  /\ UNCHANGED env

\* One iteration of the loop of shuffleString.
ShuffleStep ==
  /\ pc = "shuffle"
  /\ i > 0
  /\ \E r \in RandomValues :
       LET j == RandomIndex(r, i + 1)
       IN  /\ Draw(r)
           /\ arr' = Swap(arr, i, j)
  /\ i' = i - 1
  /\ UNCHANGED << pc, op, strength, length, input, password, setIndex,
                  remainingLength, outcome, retPassword, retReport, retMin,
                  retSets, thrown >>
  /\ UNCHANGED env

\* shuffleString returns arr.join('') and generatePassword returns it.
ReturnPassword ==
  /\ pc = "shuffle"
  /\ ~ (i > 0)
  /\ retPassword' = arr
  /\ outcome' = "returned"
  /\ pc' = "idle"
  /\ UNCHANGED << op, strength, length, input, password, setIndex,
                  remainingLength, i, arr, draws, varied, retReport, retMin,
                  retSets, thrown >>
  /\ UNCHANGED env

(* ------------------------- the other three calls ----------------------- *)

\* The strings a caller validates: one of its own when it holds no
\* result, the password it was handed when generatePassword has returned.
Validatable ==
  IF op = "none" THEN InputStrings
  ELSE IF op = "generatePassword" /\ outcome = "returned" THEN { retPassword }
  ELSE { }

ValidateCall(pw, s) ==
  /\ pc = "idle"
  /\ pw \in Validatable
  /\ Fresh("validatePasswordStrength", s)
  /\ length' = 0
  /\ input' = pw
  /\ retReport' = validatePasswordStrength(pw, s)
  /\ outcome' = "returned"
  /\ retPassword' = << >>
  /\ retMin' = 0
  /\ retSets' = << >>
  /\ thrown' = << >>
  /\ UNCHANGED pc
  /\ UNCHANGED env

GetMinLengthCall(s) ==
  /\ pc = "idle"
  /\ op = "none"
  /\ Fresh("getMinLengthForStrength", s)
  /\ length' = 0
  /\ input' = << >>
  /\ retMin' = getMinLengthForStrength(s)
  /\ outcome' = "returned"
  /\ retPassword' = << >>
  /\ retReport' = NoReport
  /\ retSets' = << >>
  /\ thrown' = << >>
  /\ UNCHANGED pc
  /\ UNCHANGED env

GetCharacterSetsCall(s) ==
  /\ pc = "idle"
  /\ op = "none"
  /\ Fresh("getCharacterSetsForStrength", s)
  /\ length' = 0
  /\ input' = << >>
  /\ retSets' = getCharacterSetsForStrength(s)
  /\ outcome' = "returned"
  /\ retPassword' = << >>
  /\ retReport' = NoReport
  /\ retMin' = 0
  /\ thrown' = << >>
  /\ UNCHANGED pc
  /\ UNCHANGED env

\* The caller drops what the finished call gave it.  The module keeps
\* nothing of a call (its only top-level bindings are the two constant
\* tables), so the next call starts from the initial state.
Discard ==
  /\ pc = "idle"
  /\ op # "none"
  /\ Fresh("none", "low")
  /\ length' = 0
  /\ input' = << >>
  /\ outcome' = "none"
  /\ retPassword' = << >>
  /\ retReport' = NoReport
  /\ retMin' = 0
  /\ retSets' = << >>
  /\ thrown' = << >>
  /\ UNCHANGED pc
  /\ UNCHANGED env

Next ==
  \/ \E s \in Strengths : \E len \in Lengths(s) : GenerateCall(len, s)
  \/ DrawRequired
  \/ BeginFill
  \/ DrawFill
  \/ BeginShuffle
  \/ ShuffleStep
  \/ ReturnPassword
  \/ \E s \in Strengths : \E pw \in Validatable : ValidateCall(pw, s)
  \/ \E s \in Strengths : GetMinLengthCall(s)
  \/ \E s \in Strengths : GetCharacterSetsCall(s)
  \/ Discard

Spec == Init /\ [][Next]_vars

(* ----------------------------- properties ------------------------------ *)

Range(seq) == { seq[n] : n \in 1..Len(seq) }

\* str has at least one character of the set chars.
Contains(str, chars) == \E n \in 1..Len(str) : str[n] \in chars

\* The number of positions of str holding a character of chars.
Count(str, chars) == Cardinality({ n \in 1..Len(str) : str[n] \in chars })

\* obj has an entry named k / the value of that entry.
HasProperty(obj, k) == \E n \in 1..Len(obj) : obj[n].key = k

Property(obj, k) == obj[CHOOSE n \in 1..Len(obj) : obj[n].key = k].value

Generated == op = "generatePassword" /\ outcome = "returned"

Validated == op = "validatePasswordStrength" /\ outcome = "returned"

\* The symbols class of a strength, as the policy table of the
\* specification gives it.
PolicySymbols(s) ==
  CASE s = "low"    -> { }
    [] s = "medium" -> Range(BasicSymbols)
    [] s = "high"   -> Range(ExtendedSymbols)

PolicyMinimum(s) ==
  CASE s = "low"    -> 6
    [] s = "medium" -> 8
    [] s = "high"   -> 12

Abc123 == << "A","b","c","1","2","3" >>

\* C1: a call of generatePassword with a length of at least the minimum of
\* its strength does not throw, and the password it returns has exactly the
\* requested length, whatever the draws.
C1_ExactLength ==
  (op = "generatePassword" /\ length >= MIN_LENGTHS[strength]) =>
     /\ outcome # "threw"
     /\ outcome = "returned" => Len(retPassword) = length

C1_Witness ==
  /\ Generated
  /\ strength = "high"
  /\ length = MIN_LENGTHS["high"] + MaxExtraLength
  /\ Len(retPassword) = length
  /\ varied > 0

\* C2: a call of generatePassword with a length below the minimum of its
\* strength, zero and negative lengths included, throws and returns no
\* password.
C2_BelowMinimumThrows ==
  (op = "generatePassword" /\ length < MIN_LENGTHS[strength]) =>
     /\ outcome = "threw"
     /\ pc = "idle"
     /\ retPassword = << >>

C2_Witness ==
  /\ op = "generatePassword"
  /\ outcome = "threw"
  /\ strength = "medium"
  /\ length < 0

\* C3: every password generatePassword returns for strength S is valid for
\* S according to validatePasswordStrength.
C3_SelfValidates ==
  Generated => validatePasswordStrength(retPassword, strength).isValid

C3_Witness ==
  /\ Validated
  /\ strength = "medium"
  /\ Len(input) = MIN_LENGTHS["medium"]
  /\ Count(input, Range(BasicSymbols)) = 1
  /\ input[1] \in Range(BasicSymbols)
  /\ retReport.isValid

\* C4: every password generatePassword returns has a lowercase letter, an
\* uppercase letter, a digit and, for medium and high, a character of the
\* symbols class of the strength.
C4_EveryMandatoryClass ==
  Generated =>
     /\ Contains(retPassword, Range(Lowercase))
     /\ Contains(retPassword, Range(Uppercase))
     /\ Contains(retPassword, Range(Numbers))
     /\ strength # "low" => Contains(retPassword, PolicySymbols(strength))

C4_Witness ==
  /\ Generated
  /\ strength = "high"
  /\ length = MIN_LENGTHS["high"]
  /\ Count(retPassword, Range(ExtendedSymbols)) = 1
  /\ Count(retPassword, Range(Numbers)) = 1
  /\ Count(retPassword, Range(Uppercase)) = 1
  /\ \A n \in 1..4 : retPassword[n] \notin Range(ExtendedSymbols)

\* C5: every character of a password generatePassword returns is of the
\* alphabet of its strength: letters, digits and the symbols class of the
\* strength; so a low password has no symbol at all and a medium password
\* no symbol outside the basic set.
C5_OnlyPolicyAlphabet ==
  Generated =>
     /\ \A n \in 1..Len(retPassword) :
          retPassword[n] \in Range(Lowercase) \cup Range(Uppercase)
                               \cup Range(Numbers) \cup PolicySymbols(strength)
     /\ strength = "low" => ~ Contains(retPassword, Range(ExtendedSymbols))
     /\ strength = "medium" =>
          ~ Contains(retPassword, Range(ExtendedSymbols) \ Range(BasicSymbols))

C5_Witness ==
  /\ Generated
  /\ strength = "medium"
  /\ Count(retPassword, Range(BasicSymbols)) >= 3

\* C6: the report of validatePasswordStrength(P, S) is valid exactly when P
\* has a lowercase letter, an uppercase letter and a digit, is at least as
\* long as the minimum of S, and S is low or P has a symbol; "Abc123" is
\* valid for low and invalid for medium.
C6_ValidityFormula ==
  Validated =>
     /\ retReport.isValid =
          ( /\ Contains(input, Range(Lowercase))
            /\ Contains(input, Range(Uppercase))
            /\ Contains(input, Range(Numbers))
            /\ Len(input) >= MIN_LENGTHS[strength]
            /\ (strength = "low" \/ Contains(input, Range(ExtendedSymbols))) )
     /\ (input = Abc123 /\ strength = "low") => retReport.isValid
     /\ (input = Abc123 /\ strength = "medium") => ~ retReport.isValid

C6_Witness ==
  /\ Validated
  /\ input = Abc123
  /\ strength = "low"
  /\ retReport.isValid

\* C7 as stated: the hasSymbols flag of the report is true exactly when P
\* has a character of the extended symbol set, whatever S is, low included.
C7_HasSymbolsIgnoresStrength ==
  Validated =>
     retReport.details.hasSymbols = Contains(input, Range(ExtendedSymbols))

\* C7 amended: the hasSymbols flag of the report is false when S is low;
\* for medium and high it is true exactly when P has a character of the
\* extended symbol set.
C7_HasSymbolsExceptLow ==
  Validated =>
     retReport.details.hasSymbols =
        (strength # "low" /\ Contains(input, Range(ExtendedSymbols)))

C7_Witness ==
  /\ Validated
  /\ strength = "low"
  /\ Contains(input, { "[" })
  /\ ~ retReport.details.hasSymbols

\* C8: the mapping getCharacterSetsForStrength(S) returns has lowercase,
\* uppercase and numbers entries, has a symbols entry exactly when S is not
\* low, and that entry is !@#$%^&* for medium and the extended set for high.
C8_SymbolsKeyIffNotLow ==
  (op = "getCharacterSetsForStrength" /\ outcome = "returned") =>
     /\ HasProperty(retSets, "lowercase")
     /\ HasProperty(retSets, "uppercase")
     /\ HasProperty(retSets, "numbers")
     /\ HasProperty(retSets, "symbols") = (strength # "low")
     /\ strength = "medium" => Property(retSets, "symbols") = BasicSymbols
     /\ strength = "high" => Property(retSets, "symbols") = ExtendedSymbols

C8_Witness ==
  /\ op = "getCharacterSetsForStrength"
  /\ outcome = "returned"
  /\ strength = "low"
  /\ Len(retSets) = 3
  /\ ~ HasProperty(retSets, "symbols")

\* C9: getMinLengthForStrength returns 6, 8 and 12 for low, medium and
\* high; generatePassword throws exactly below that number and meetsLength
\* of the validator is true exactly from that number on.
C9_OneThreshold ==
  /\ (op = "getMinLengthForStrength" /\ outcome = "returned") =>
        retMin = PolicyMinimum(strength)
  /\ op = "generatePassword" =>
        ((outcome = "threw") = (length < PolicyMinimum(strength)))
  /\ Validated =>
        (retReport.details.meetsLength = (Len(input) >= PolicyMinimum(strength)))

C9_Witness ==
  /\ op = "getMinLengthForStrength"
  /\ outcome = "returned"
  /\ strength = "high"
  /\ retMin = 12

\* C10: the report of validatePasswordStrength on the empty string has
\* every presence flag false, meetsLength false and isValid false, for
\* every strength.
C10_EmptyString ==
  (Validated /\ input = << >>) =>
     /\ ~ retReport.details.hasLowercase
     /\ ~ retReport.details.hasUppercase
     /\ ~ retReport.details.hasNumbers
     /\ ~ retReport.details.hasSymbols
     /\ ~ retReport.details.meetsLength
     /\ ~ retReport.isValid

C10_Witness ==
  /\ Validated
  /\ input = << >>
  /\ strength = "high"
  /\ retReport.details.strength = "high"

\* C11: in the report of validatePasswordStrength(P, S), hasLowercase,
\* hasUppercase and hasNumbers are true exactly when P has a character of
\* a-z, of A-Z and of 0-9, whatever S and the other characters of P are, and
\* meetsLength is true exactly when P is at least as long as the minimum
\* of S.
C11_PresenceFlags ==
  Validated =>
     /\ retReport.details.hasLowercase = Contains(input, Range(Lowercase))
     /\ retReport.details.hasUppercase = Contains(input, Range(Uppercase))
     /\ retReport.details.hasNumbers = Contains(input, Range(Numbers))
     /\ retReport.details.meetsLength = (Len(input) >= PolicyMinimum(strength))

C11_Witness ==
  /\ Validated
  /\ strength = "medium"
  /\ Contains(input, { " " })
  /\ Contains(input, Range(Lowercase))
  /\ ~ Contains(input, Range(Uppercase))
  /\ retReport.details.hasLowercase
  /\ ~ retReport.details.hasUppercase
  /\ retReport.details.meetsLength

\* C12: validatePasswordStrength returns a report for every string and
\* every strength, the empty string and strings of characters of no class
\* included, and the strength of the report is the strength passed in.
C12_AlwaysReports ==
  op = "validatePasswordStrength" =>
     /\ outcome = "returned"
     /\ pc = "idle"
     /\ DOMAIN retReport = { "isValid", "details" }
     /\ DOMAIN retReport.details =
          { "hasLowercase", "hasUppercase", "hasNumbers", "hasSymbols",
            "meetsLength", "strength" }
     /\ retReport.isValid \in BOOLEAN
     /\ retReport.details.strength = strength

C12_Witness ==
  /\ Validated
  /\ input = << " ", " ", " " >>
  /\ strength = "high"
  /\ retReport.details.strength = "high"
  /\ ~ retReport.isValid

Threw == op = "generatePassword" /\ outcome = "threw"

\* C13 as stated: the error generatePassword throws carries the requested
\* length, the strength and the minimum length of the strength.
C13_ErrorCarriesThree ==
  Threw =>
     /\ Decimal(length) \in Range(thrown)
     /\ strength \in Range(thrown)
     /\ Decimal(PolicyMinimum(strength)) \in Range(thrown)

\* C13 amended: the error generatePassword throws carries the strength and
\* the minimum length of the strength, and not the requested length.
C13_ErrorCarriesTwo ==
  Threw =>
     /\ strength \in Range(thrown)
     /\ Decimal(PolicyMinimum(strength)) \in Range(thrown)
     /\ Decimal(length) \notin Range(thrown)

C13_Witness ==
  /\ Threw
  /\ strength = "high"
  /\ length = 11
  /\ thrown = << "Password length must be at least ", "12",
                 " characters for ", "high", " strength" >>

(* ------------- a caller holding a mapping the accessor returned ---------- *)

\* getCharacterSetsForStrength returns CHARACTER_SETS[strength] itself, not
\* a copy, and its type Record<string, string> lets the caller assign and
\* delete entries: what the caller does to the mapping it holds is done to
\* the table.

ClassNames == { "lowercase", "uppercase", "numbers", "symbols" }

\* The strings a caller assigns: the empty string and a one-letter string.
CallerValues == { << >>, << "x" >> }

\* delete obj[k]
DeleteProperty(obj, k) == SelectSeq(obj, LAMBDA e : e.key # k)

\* obj[k] = v: in place when the key exists, a new last entry otherwise.
SetProperty(obj, k, v) ==
  IF \E n \in 1..Len(obj) : obj[n].key = k
  THEN [ n \in 1..Len(obj) |-> IF obj[n].key = k THEN Entry(k, v) ELSE obj[n] ]
  ELSE Append(obj, Entry(k, v))

\* The number of entries of the table that are not as the literal has them.
Mutations(tbl) ==
  Cardinality({ sk \in Strengths \X ClassNames :
    LET now == { e \in Range(tbl[sk[1]]) : e.key = sk[2] }
        lit == { e \in Range(CHARACTER_SETS[sk[1]]) : e.key = sk[2] }
    IN  now # lit })

HoldsMapping ==
  /\ pc = "idle"
  /\ op = "getCharacterSetsForStrength"
  /\ outcome \in { "returned", "modified" }

\* The caller runs `delete sets[k]` on the mapping it holds.
CallerDelete(k) ==
  /\ HoldsMapping
  /\ LET obj == DeleteProperty(retSets, k)
     IN  /\ Mutations([ characterSets EXCEPT ![strength] = obj ]) <= MaxMutations
         /\ retSets' = obj
         /\ characterSets' = [ characterSets EXCEPT ![strength] = obj ]
  /\ outcome' = "modified"
  /\ UNCHANGED << pc, op, strength, length, input, password, setIndex,
                  remainingLength, i, arr, draws, varied, retPassword,
                  retReport, retMin, thrown, uiLength, uiStrength >>

\* The caller runs `sets[k] = v` on the mapping it holds.
CallerWrite(k, v) ==
  /\ HoldsMapping
  /\ LET obj == SetProperty(retSets, k, v)
     IN  /\ Mutations([ characterSets EXCEPT ![strength] = obj ]) <= MaxMutations
         /\ retSets' = obj
         /\ characterSets' = [ characterSets EXCEPT ![strength] = obj ]
  /\ outcome' = "modified"
  /\ UNCHANGED << pc, op, strength, length, input, password, setIndex,
                  remainingLength, i, arr, draws, varied, retPassword,
                  retReport, retMin, thrown, uiLength, uiStrength >>

NextAliased ==
  \/ \E s \in Strengths : GetCharacterSetsCall(s)
  \/ \E s \in Strengths : GetMinLengthCall(s)
  \/ \E k \in ClassNames : CallerDelete(k)
  \/ \E k \in ClassNames : \E v \in CallerValues : CallerWrite(k, v)
  \/ Discard

SpecAliased == Init /\ [][NextAliased]_vars

\* C14: whatever calls were made before and whatever a caller did to a
\* mapping it was handed, getCharacterSetsForStrength returns the character
\* classes of the first call, which are those of the literal, and
\* getMinLengthForStrength the minimum lengths of the literal.
C14_TableImmutable ==
  /\ (op = "getCharacterSetsForStrength" /\ outcome = "returned") =>
        retSets = CHARACTER_SETS[strength]
  /\ (op = "getMinLengthForStrength" /\ outcome = "returned") =>
        retMin = MIN_LENGTHS[strength]

\* C15: a string that validatePasswordStrength finds valid for high is valid
\* for medium, and a string valid for medium is valid for low.
C15_StrictnessOrder ==
  Validated =>
     /\ validatePasswordStrength(input, "high").isValid =>
           validatePasswordStrength(input, "medium").isValid
     /\ validatePasswordStrength(input, "medium").isValid =>
           validatePasswordStrength(input, "low").isValid

C15_Witness ==
  /\ Validated
  /\ strength = "high"
  /\ retReport.isValid
  /\ Len(input) = 12
  /\ Contains(input, { "[" })
  /\ validatePasswordStrength(input, "medium").isValid
  /\ validatePasswordStrength(input, "low").isValid

\* C16: a call of generatePassword with a length below the minimum never
\* gets to a draw: it makes no Math.random() call and builds no character
\* of a password, before or after it throws.
C16_CheckBeforeDraws ==
  (op = "generatePassword" /\ length < PolicyMinimum(strength)) =>
     /\ draws = 0
     /\ password = << >>
     /\ arr = << >>
     /\ pc \notin { "required", "fill", "shuffle" }

C16_Witness ==
  /\ Threw
  /\ strength = "low"
  /\ length = 5
  /\ draws = 0
  /\ password = << >>

\* a and b have the same length and every character as many times.
SameCharacters(a, b) ==
  /\ Len(a) = Len(b)
  /\ \A c \in Range(a) \cup Range(b) : Count(a, { c }) = Count(b, { c })

\* C17: all through shuffleString and in what it returns, the array has the
\* length and the characters, each as many times, of the sequence
\* generatePassword assembled before the shuffle.
C17_ShuffleOnlyReorders ==
  /\ pc = "shuffle" => SameCharacters(arr, password)
  /\ Generated => SameCharacters(retPassword, password)

C17_Witness ==
  /\ Generated
  /\ strength = "low"
  /\ retPassword # password
  /\ retPassword[1] = password[Len(password)]
  /\ SameCharacters(retPassword, password)

(* ------------------------ shuffleString on its own ----------------------- *)

\* Every value of Math.random() at the resolution of the model.
AllRandomValues == 0..(RandomDenom - 1)

\* The values shuffleString(str) can return: the loop from k down to 1,
\* with every j that Math.floor(Math.random() * (k + 1)) can be.
RECURSIVE ShuffleFrom(_, _)
ShuffleFrom(a, k) ==
  IF k > 0
  THEN UNION { ShuffleFrom(Swap(a, k, j), k - 1) :
                 j \in { RandomIndex(r, k + 1) : r \in AllRandomValues } }
  ELSE { a }

shuffleString(str) == ShuffleFrom(str, Len(str) - 1)

\* One character of each class generatePassword always guarantees.
ShuffleAlphabet == { "a", "A", "0" }

ShuffleInputs ==
  UNION { [ 1..n -> ShuffleAlphabet ] : n \in 0..MaxShuffleLen }

\* shuffleString(str) has just split str into arr.
InitShuffle ==
  /\ \E str \in ShuffleInputs :
       /\ password = str
       /\ arr = str
       /\ i = Len(str) - 1
  /\ pc = "shuffle"
  /\ op = "shuffleString"
  /\ strength = "low"
  /\ length = 0
  /\ input = << >>
  /\ setIndex = 1
  /\ remainingLength = 0
  /\ draws = 0
  /\ varied = 0
  /\ outcome = "pending"
  /\ retPassword = << >>
  /\ retReport = NoReport
  /\ retMin = 0
  /\ retSets = << >>
  /\ thrown = << >>
  /\ characterSets = CHARACTER_SETS
  /\ uiLength = InitialLength
  /\ uiStrength = InitialStrength

\* One iteration of the loop of shuffleString, Math.random() returning any
\* of its values.
ShuffleStepAny ==
  /\ pc = "shuffle"
  /\ i > 0
  /\ \E r \in AllRandomValues :
       LET j == RandomIndex(r, i + 1)
       IN  arr' = Swap(arr, i, j)
  /\ draws' = draws + 1
  /\ i' = i - 1
  /\ UNCHANGED << pc, op, strength, length, input, password, setIndex,
                  remainingLength, varied, outcome, retPassword, retReport,
                  retMin, retSets, thrown >>
  /\ UNCHANGED env

NextShuffle ==
  \/ ShuffleStepAny
  \/ ReturnPassword

SpecShuffle == InitShuffle /\ [][NextShuffle]_vars

\* Every rearrangement of str.
Permutations(str) ==
  LET D == 1..Len(str)
  IN  { [ n \in D |-> str[p[n]] ] :
          p \in { f \in [ D -> D ] : \A a, b \in D : a # b => f[a] # f[b] } }

\* C18: shuffleString runs i from the last index down to 1, one draw per
\* index; the j it draws is in 0..i; and the values it can return are all
\* the rearrangements of its argument, so each character of the argument
\* can end at each position.
C18_FisherYates ==
  /\ pc = "shuffle" =>
        /\ i = Len(arr) - 1 - draws
        /\ i > 0 => \A r \in AllRandomValues : RandomIndex(r, i + 1) \in 0..i
  /\ (pc = "shuffle" /\ draws = 0) =>
        /\ shuffleString(password) = Permutations(password)
        /\ \A n, m \in 1..Len(password) :
             \E out \in shuffleString(password) : out[m] = password[n]
  /\ (op = "shuffleString" /\ outcome = "returned") =>
        /\ retPassword \in shuffleString(password)
        /\ draws = IF Len(password) > 0 THEN Len(password) - 1 ELSE 0

C18_Witness ==
  /\ op = "shuffleString"
  /\ outcome = "returned"
  /\ password = << "a", "A", "0", "a" >>
  /\ retPassword = << "a", "0", "A", "a" >>

(* --------------------- the PasswordGenerator component ------------------- *)

\* Of the state of the component, length and strength are modelled; the
\* password shown, the validation shown and the two flags are not.  A handler
\* runs to its end before the next event is taken: the events below need
\* that no call is in progress or waiting to be dropped.

\* max={50} of the slider
SliderMax == 50

NoHandlerRunning == pc = "idle" /\ op = "none"

\* const minLength = getMinLengthForStrength(strength)
minLength == getMinLengthForStrength(uiStrength)

\* handleStrengthChange without the correction of the length.
LengthAfterStrengthChange_Kept(len, newMinLength) == len

\* if (length < newMinLength) setLength(newMinLength)
LengthAfterStrengthChange(len, newMinLength) ==
  IF len < newMinLength THEN newMinLength ELSE len

\* parseInt(e.target.value): an integer, or NaN for a text that starts
\* with no number.
NaN == [ nan |-> TRUE, n |-> 0 ]

Parsed(v) == [ nan |-> FALSE, n |-> v ]

TypedValues == { Parsed(v) : v \in (0 - MaxBelowZero)..MaxTyped } \cup { NaN }

\* parsed || fallback: NaN and 0 are falsy.
OrElse(parsed, fallback) ==
  IF parsed.nan \/ parsed.n = 0 THEN fallback ELSE parsed.n

\* Math.max(a, b)
MathMax(a, b) == IF a >= b THEN a ELSE b

\* Math.max(minLength, parseInt(e.target.value) || minLength)
LengthAfterTyping(parsed, minLen) == MathMax(minLen, OrElse(parsed, minLen))

\* The values the slider offers: from min={minLength} to max={50}.
SliderValues == { v \in minLength..SliderMax : v <= MaxTyped }

HandleStrengthChange(newStrength) ==
  /\ NoHandlerRunning
  /\ uiStrength' = newStrength
  /\ uiLength' =
       LengthAfterStrengthChange(uiLength, getMinLengthForStrength(newStrength))
  /\ UNCHANGED << pc, op, strength, length, input, password, setIndex,
                  remainingLength, i, arr, draws, varied, outcome, retPassword,
                  retReport, retMin, retSets, thrown, characterSets >>

\* onChange of the slider.
SliderChange(v) ==
  /\ NoHandlerRunning
  /\ v \in SliderValues
  /\ uiLength' = v
  /\ UNCHANGED << pc, op, strength, length, input, password, setIndex,
                  remainingLength, i, arr, draws, varied, outcome, retPassword,
                  retReport, retMin, retSets, thrown, characterSets,
                  uiStrength >>

\* onChange of the number field.
NumberChange(parsed) ==
  /\ NoHandlerRunning
  /\ uiLength' = LengthAfterTyping(parsed, minLength)
  /\ UNCHANGED << pc, op, strength, length, input, password, setIndex,
                  remainingLength, i, arr, draws, varied, outcome, retPassword,
                  retReport, retMin, retSets, thrown, characterSets,
                  uiStrength >>

\* handleGeneratePassword: generatePassword({ length, strength }) ...
PressGenerate == GenerateCall(uiLength, uiStrength)

\* ... and validatePasswordStrength(newPassword, strength) on what it
\* returned.
ShowValidation ==
  /\ op = "generatePassword"
  /\ ValidateCall(retPassword, uiStrength)

NextComponent ==
  \/ \E s \in Strengths : HandleStrengthChange(s)
  \/ \E v \in 0..SliderMax : SliderChange(v)
  \/ \E parsed \in TypedValues : NumberChange(parsed)
  \/ PressGenerate
  \/ DrawRequired
  \/ BeginFill
  \/ DrawFill
  \/ BeginShuffle
  \/ ShuffleStep
  \/ ReturnPassword
  \/ ShowValidation
  \/ Discard

SpecComponent == Init /\ [][NextComponent]_vars

\* C19: after any strength selections and length edits the length of the
\* component is at least the minimum of its strength, and the call of
\* generatePassword that Generate makes with them does not throw.
C19_LengthAtLeastMinimum ==
  /\ uiLength >= PolicyMinimum(uiStrength)
  /\ op = "generatePassword" =>
        /\ length = uiLength
        /\ strength = uiStrength
        /\ outcome # "threw"

C19_Witness ==
  /\ Generated
  /\ uiStrength = "low"
  /\ uiLength = 6
  /\ Len(retPassword) = 6

====
